---- MODULE Spec2Model ----
(***************************************************************************)
(* Model of package db (EdDb): a database/sql pool over a sqlite file with *)
(* a shared in-memory database attached to every connection, a cache of    *)
(* four named prepared statements, and the operations UpsertPerson,        *)
(* RecordSessionActivity, PrintSessionActivity, New and Close.             *)
(*                                                                         *)
(* One thread ("main") runs New and Close; NumWorkers callers run the data *)
(* operations on the open handle.  Every statement execution is one atomic *)
(* step of the sqlite engine, preceded by the checkout of a pooled         *)
(* connection.  Backend failures (I/O error, failed ATTACH, failed         *)
(* prepare) are inputs chosen nondeterministically.                        *)
(***************************************************************************)
EXTENDS Integers, Sequences, FiniteSets, TLC

\* ------------------------------------------------------------------ bounds
NumWorkers == 2
MaxCalls == 3
MaxTime == 1

Workers == 1..NumWorkers
\* The goroutine of main, which calls the handle like a worker does.
Main == 0
Callers == Workers \cup {Main}
\* database/sql opens a new connection when no idle one is free, without an
\* upper limit (SetMaxOpenConns is never called): one per concurrent caller.
ConnIds == 1..NumWorkers
Ids == {0, 1}
Names == {"Andy", "Andy2"}
\* SQL NULL in a text column and in an integer column; the zero time.Time.
Null == "NULL"
NullId == -1
ZeroTime == -1

\* The driver: the workers are putters and session updaters in turn, each
\* running its loop numPutterIter or numSessionIter times.
numPutterIter == 1
numSessionIter == 2
Putters == {w \in Workers : w % 2 = 1}
SessionUpdaters == Workers \ Putters
Iterations(w) == IF w \in Putters THEN numPutterIter ELSE numSessionIter
\* The driver's table of names, as far as Ids reaches; which := rand.Intn(..)
\* draws an index of it.
names == [i \in Ids |-> IF i = 0 THEN "Andy" ELSE "Jim"]

\* The keys of preparedStatements().
Titles == {"insertPerson", "updatePerson", "recordSessionActivity", "getSessionActivity"}

VARIABLES
    proc,             \* "running", "fatal" (log.Fatal -> os.Exit) or "panic"
    registered,       \* database/sql's driver registry holds the driver name
    mainpc,           \* position of the thread that runs New and Close
    newErr,           \* the error New returned ("nil" when none)
    opens,            \* number of calls of New so far
    pool,             \* dbConn: "none", "open", "closed"
    conns,            \* per connection: "none", "attached" (mem attached), "bare"
    statements,       \* db.statements: per title "nil", "prepared", "closed"
    personTable,      \* main.person exists in the disk database
    person,           \* rows of main.person
    memTable,         \* mem.sessionActivity exists in the shared memory database
    sessionActivity,  \* rows of mem.sessionActivity, in insertion order
    now,              \* the engine's clock (CURRENT_TIMESTAMP)
    wpc,              \* per worker: position in its current call
    wargs,            \* per worker: arguments of the call in progress
    werr,             \* per worker: the err variable of the current call
    wrows,            \* per worker: rows affected by its update statement
    wout,             \* per worker: the rows printed by PrintSessionActivity
    updHits,          \* per id: update statements so far that affected a row
    upserts,          \* per id: the names of the UpsertPerson calls completed
    calls,            \* number of data operations invoked so far
    fatalMsg,         \* the prefix log.Fatal printed
    diskAtClose,      \* main.person as it was when Close closed the pool
    dpc,              \* the driver's main: "new", "recv", "report", "finished"
    witers,           \* per worker: iterations of its loop still to run
    wsent,            \* per worker: messages it has sent on the channel
    recvd             \* messages main has received from the channel

mainVars == <<registered, mainpc, newErr, opens, pool, statements, personTable,
              memTable, diskAtClose>>
dataVars == <<person, sessionActivity, now, updHits, upserts>>
workerVars == <<wpc, wargs, werr, wrows, wout, calls>>
driverVars == <<dpc, witers, wsent, recvd>>
vars == <<proc, conns, fatalMsg, mainVars, dataVars, workerVars, driverVars>>

NoArgs == [id |-> 0, name |-> Null]

\* ------------------------------------------------------- the sql statements

Row(id, name, n) == [id |-> id, name |-> name, numUpdates |-> n]

RowsOf(tbl, id) == {r \in tbl : r.id = id}

\* UPDATE person SET name=:name, numUpdates=numUpdates+1 WHERE id=:id
UpdatePersonKeepName(tbl, id, name) ==
    {IF r.id = id THEN Row(r.id, r.name, r.numUpdates + 1) ELSE r : r \in tbl}
UpdatePersonTwice(tbl, id, name) ==
    {IF r.id = id THEN Row(r.id, name, r.numUpdates + 2) ELSE r : r \in tbl}
UpdatePerson(tbl, id, name) ==
    {IF r.id = id THEN Row(r.id, name, r.numUpdates + 1) ELSE r : r \in tbl}

\* INSERT OR IGNORE INTO person (id, name) VALUES(:id, :name); id is the
\* PRIMARY KEY, numUpdates takes its DEFAULT 0.
InsertPersonNoIgnore(tbl, id, name) == tbl \cup {Row(id, name, 0)}
InsertPersonOrReplace(tbl, id, name) ==
    (tbl \ RowsOf(tbl, id)) \cup {Row(id, name, 0)}
InsertPerson(tbl, id, name) ==
    IF RowsOf(tbl, id) # {} THEN tbl ELSE tbl \cup {Row(id, name, 0)}

\* INSERT INTO sessionActivity (personId) VALUES(:personId); id is the rowid,
\* dateTime takes its DEFAULT CURRENT_TIMESTAMP.
RecordSessionActivityReplace(events, personId, t) ==
    <<[id |-> 1, personId |-> personId, dateTime |-> t]>>
RecordSessionActivityRow(events, personId, t) ==
    Append(events, [id |-> Len(events) + 1, personId |-> personId, dateTime |-> t])

\* ---------------------------------------------------------------- Init

Init ==
    /\ proc = "running"
    /\ registered = FALSE
    /\ mainpc = "start"
    /\ newErr = "nil"
    /\ opens = 0
    /\ pool = "none"
    /\ conns = [c \in ConnIds |-> "none"]
    /\ statements = [t \in Titles |-> "nil"]
    /\ person = {}
    /\ personTable = FALSE
    /\ memTable = FALSE
    /\ sessionActivity = <<>>
    /\ now = 0
    /\ wpc = [w \in Callers |-> "idle"]
    /\ wargs = [w \in Callers |-> NoArgs]
    /\ werr = [w \in Callers |-> "nil"]
    /\ wrows = [w \in Callers |-> 0]
    /\ wout = [w \in Callers |-> <<>>]
    /\ updHits = [i \in Ids |-> 0]
    /\ upserts = [i \in Ids |-> <<>>]
    /\ calls = 0
    /\ fatalMsg = "none"
    /\ diskAtClose = {}
    /\ dpc = "new"
    /\ witers = [w \in Workers |-> Iterations(w)]
    /\ wsent = [w \in Workers |-> 0]
    /\ recvd = 0

\* ------------------------------------------------------- connections, pool

\* The ConnectHook of the registered driver: it issues ATTACH DATABASE on the
\* new connection, drops the result of that Exec and returns nil.
ConnectHook(attachOk) == "nil"

\* The state of a connection the hook has run on.
Attach(attachOk) == IF attachOk THEN "attached" ELSE "bare"

OpenConns == {c \in ConnIds : conns[c] # "none"}
AbsentConns == {c \in ConnIds : conns[c] = "none"}
FirstAbsent == CHOOSE c \in AbsentConns : \A d \in AbsentConns : c <= d

\* The callers other than w that are inside a call: each may be holding a
\* connection of the pool at this moment.
BusyOthers(w) == {v \in Callers \ {w} : wpc[v] \notin {"idle", "done"}}

WorkersQuiet == \A w \in Workers : wpc[w] \in {"idle", "done"}

\* sql.Register panics when the name is registered already.
RegisterPanics(reg) == reg

\* ----------------------------------------------------------------- New

\* New, line 30: sql.Register of the driver with the ConnectHook.
Register ==
    /\ proc = "running"
    /\ mainpc \in {"start", "closed"}
    /\ opens' = opens + 1
    /\ IF RegisterPanics(registered)
         THEN /\ proc' = "panic"
              /\ UNCHANGED <<registered, mainpc>>
         ELSE /\ registered' = TRUE
              /\ mainpc' = "registered"
              /\ proc' = proc
    /\ newErr' = "nil"
    /\ UNCHANGED <<pool, statements, personTable, memTable, diskAtClose, conns,
                   fatalMsg, dataVars, workerVars>>
    /\ UNCHANGED driverVars

\* New, lines 41-53: sqlx.Connect opens the pool and pings it, which creates
\* the first connection through the hook; then SetMaxIdleConns, the PRAGMA,
\* whose result is dropped, and the EdDb value with an empty statements map.
Connect ==
    /\ proc = "running"
    /\ mainpc = "registered"
    /\ \E attachOk \in BOOLEAN, fault \in BOOLEAN :
         IF fault \/ ConnectHook(attachOk) # "nil"
           THEN /\ newErr' = "connect"
                /\ mainpc' = "failed"
                /\ UNCHANGED <<pool, conns, statements>>
           ELSE /\ pool' = "open"
                /\ statements' = [t \in Titles |-> "nil"]
                /\ conns' = [conns EXCEPT ![1] = Attach(attachOk)]
                /\ mainpc' = "connected"
                /\ newErr' = "nil"
    /\ UNCHANGED <<proc, registered, opens, personTable, memTable,
                   diskAtClose, fatalMsg, dataVars, workerVars>>
    /\ UNCHANGED driverVars

\* The error of the two CREATE TABLE statements of initDbSchema, run in one
\* Exec on the pool's only connection.
SchemaErr(connState, hasMemTable, fault) ==
    IF fault THEN "io"
    ELSE IF connState # "attached" THEN "unknown database mem"
    ELSE IF hasMemTable THEN "table exists"
    ELSE "nil"

\* New, lines 55-59, and initDbSchema.
InitDbSchema ==
    /\ proc = "running"
    /\ mainpc = "connected"
    /\ \E fault \in BOOLEAN :
         LET err == SchemaErr(conns[1], memTable, fault) IN
         /\ personTable' = (personTable \/ ~fault)
         /\ newErr' = err
         /\ IF err # "nil"
              THEN /\ pool' = "closed"
                   /\ conns' = [c \in ConnIds |-> "none"]
                   /\ memTable' = FALSE
                   /\ mainpc' = "failed"
              ELSE /\ memTable' = TRUE
                   /\ mainpc' = "preparing"
                   /\ UNCHANGED <<pool, conns>>
    /\ UNCHANGED <<proc, registered, opens, statements, diskAtClose,
                   fatalMsg, dataVars, workerVars>>
    /\ UNCHANGED driverVars

\* buildPreparedStatements, one turn of its loop over the map (in any order):
\* PrepareNamed, and log.Fatal when it fails.
Prepare ==
    /\ proc = "running"
    /\ mainpc = "preparing"
    /\ \E t \in Titles, fault \in BOOLEAN :
         /\ statements[t] = "nil"
         /\ IF fault
              THEN /\ proc' = "fatal"
                   /\ fatalMsg' = "buildPreparedStatement"
                   /\ newErr' = "prepare"
                   /\ UNCHANGED statements
              ELSE /\ statements' = [statements EXCEPT ![t] = "prepared"]
                   /\ UNCHANGED <<proc, fatalMsg, newErr>>
    /\ UNCHANGED <<registered, mainpc, opens, pool, personTable, memTable,
                   diskAtClose, conns, dataVars, workerVars>>
    /\ UNCHANGED driverVars

\* The loop of buildPreparedStatements has gone through every title.
PrepareLoopDone(st) == \A t \in Titles : st[t] = "prepared"

\* New, line 66: the handle is returned.
NewReturn ==
    /\ proc = "running"
    /\ mainpc = "preparing"
    /\ PrepareLoopDone(statements)
    /\ mainpc' = "open"
    /\ UNCHANGED <<proc, registered, newErr, opens, pool, statements, personTable,
                   memTable, diskAtClose, conns, fatalMsg, dataVars,
                   workerVars>>
    /\ UNCHANGED driverVars

\* ---------------------------------------------------------------- Close

\* Close, lines 72-74: the loop over the titles of preparedStatements()
\* closes the statement cached under each.
ReleaseSome(st) ==
    [t \in Titles |-> IF t = "getSessionActivity" THEN st[t] ELSE "closed"]
ReleaseAll(st) == [t \in Titles |-> "closed"]

CloseStmts ==
    /\ proc = "running"
    /\ mainpc = "open"
    /\ WorkersQuiet
    /\ statements' = ReleaseAll(statements)
    /\ mainpc' = "closing"
    /\ UNCHANGED <<proc, registered, newErr, opens, pool, personTable, memTable,
                   diskAtClose, conns, fatalMsg, dataVars, workerVars>>
    /\ UNCHANGED driverVars

\* Close, line 77: dbConn.Close() closes every connection; the memory database
\* goes with the last connection that had it attached.
ClosePool ==
    /\ proc = "running"
    /\ mainpc = "closing"
    /\ pool' = "closed"
    /\ conns' = [c \in ConnIds |-> "none"]
    /\ memTable' = FALSE
    /\ sessionActivity' = <<>>
    /\ diskAtClose' = person
    /\ mainpc' = "closed"
    /\ UNCHANGED <<proc, registered, newErr, opens, statements, personTable,
                   fatalMsg, person, now, updHits, upserts, workerVars>>
    /\ UNCHANGED driverVars

\* ------------------------------------------------------ the data operations

\* The error of one statement execution: database/sql prepares the statement
\* on the connection it checked out, which fails when the statement names a
\* table that connection does not see, and then runs it.
ExecErr(connState, needsMem, hasMemTable, fault) ==
    IF fault THEN "io"
    ELSE IF needsMem /\ ~(connState = "attached" /\ hasMemTable) THEN "no such table"
    ELSE "nil"

\* The error of the insert of RecordSessionActivity: the table declares no
\* reference to person, so the row of person plays no part.
RecordErrChecked(connState, hasMemTable, tbl, personId, fault) ==
    IF ExecErr(connState, TRUE, hasMemTable, fault) # "nil"
      THEN ExecErr(connState, TRUE, hasMemTable, fault)
    ELSE IF RowsOf(tbl, personId) = {} THEN "constraint"
    ELSE "nil"
RecordErr(connState, hasMemTable, tbl, personId, fault) ==
    ExecErr(connState, TRUE, hasMemTable, fault)

CallUpsertPerson(w) ==
    /\ proc = "running"
    /\ mainpc = "open"
    /\ wpc[w] \in {"idle", "done"}
    /\ calls < MaxCalls
    /\ \E id \in Ids, name \in Names :
         wargs' = [wargs EXCEPT ![w] = [id |-> id, name |-> name]]
    /\ wpc' = [wpc EXCEPT ![w] = "update"]
    /\ werr' = [werr EXCEPT ![w] = "nil"]
    /\ wrows' = [wrows EXCEPT ![w] = 0]
    /\ calls' = calls + 1
    /\ UNCHANGED <<proc, conns, fatalMsg, mainVars, dataVars, wout>>
    /\ UNCHANGED driverVars

CallRecordSessionActivity(w) ==
    /\ proc = "running"
    /\ mainpc = "open"
    /\ wpc[w] \in {"idle", "done"}
    /\ calls < MaxCalls
    /\ \E id \in Ids : wargs' = [wargs EXCEPT ![w] = [id |-> id, name |-> Null]]
    /\ wpc' = [wpc EXCEPT ![w] = "record"]
    /\ werr' = [werr EXCEPT ![w] = "nil"]
    /\ calls' = calls + 1
    /\ UNCHANGED <<proc, conns, fatalMsg, mainVars, dataVars, wout, wrows>>
    /\ UNCHANGED driverVars

CallPrintSessionActivity(w) ==
    /\ proc = "running"
    /\ mainpc = "open"
    /\ wpc[w] \in {"idle", "done"}
    /\ calls < MaxCalls
    /\ wargs' = [wargs EXCEPT ![w] = NoArgs]
    /\ wpc' = [wpc EXCEPT ![w] = "query"]
    /\ werr' = [werr EXCEPT ![w] = "nil"]
    /\ wout' = [wout EXCEPT ![w] = <<>>]
    /\ calls' = calls + 1
    /\ UNCHANGED <<proc, conns, fatalMsg, mainVars, dataVars, wrows>>
    /\ UNCHANGED driverVars

\* Stmt.Exec / Stmt.Query take a connection from the pool for the statement:
\* one that is open, or, when every open one may be held by another caller, a
\* new one made by the driver, on which the ConnectHook runs.  cs is the pool
\* after the checkout and c the connection taken (0: the hook refused it).
Checkouts(w) ==
    {[cs |-> conns, c |-> c] : c \in OpenConns}
    \cup
    (IF AbsentConns # {} /\ Cardinality(OpenConns) <= Cardinality(BusyOthers(w))
       THEN {IF ConnectHook(ok) # "nil"
               THEN [cs |-> conns, c |-> 0]
               ELSE [cs |-> [conns EXCEPT ![FirstAbsent] = Attach(ok)], c |-> FirstAbsent]
             : ok \in BOOLEAN}
       ELSE {})

\* The error of the statement run after checkout k.
StmtErr(k, needsMem, fault) ==
    IF k.c = 0 THEN "connect" ELSE ExecErr(k.cs[k.c], needsMem, memTable, fault)

\* UpsertPerson, lines 87-90: the update statement, log.Fatal on an error.
ExecUpdatePerson(w) ==
    /\ proc = "running"
    /\ wpc[w] = "update"
    /\ \E k \in Checkouts(w), fault \in BOOLEAN :
         LET err == StmtErr(k, FALSE, fault)
             id == wargs[w].id
             hit == Cardinality(RowsOf(person, id))
         IN
         /\ conns' = k.cs
         /\ werr' = [werr EXCEPT ![w] = err]
         /\ IF err # "nil"
              THEN /\ proc' = "fatal"
                   /\ fatalMsg' = "updatePerson"
                   /\ UNCHANGED <<person, updHits, wrows, wpc>>
              ELSE /\ person' = UpdatePerson(person, id, wargs[w].name)
                   /\ wrows' = [wrows EXCEPT ![w] = hit]
                   /\ updHits' = [updHits EXCEPT ![id] = @ + (IF hit > 0 THEN 1 ELSE 0)]
                   /\ wpc' = [wpc EXCEPT ![w] = "insert"]
                   /\ UNCHANGED <<proc, fatalMsg>>
    /\ UNCHANGED <<mainVars, sessionActivity, now, upserts, wargs, wout, calls>>
    /\ UNCHANGED driverVars

\* UpsertPerson, lines 91-95: the insert statement, log.Fatal on an error,
\* and the return.
ExecInsertPerson(w) ==
    /\ proc = "running"
    /\ wpc[w] = "insert"
    /\ \E k \in Checkouts(w), fault \in BOOLEAN :
         LET err == StmtErr(k, FALSE, fault) IN
         /\ conns' = k.cs
         /\ werr' = [werr EXCEPT ![w] = err]
         /\ IF err # "nil"
              THEN /\ proc' = "fatal"
                   /\ fatalMsg' = "insertPerson"
                   /\ UNCHANGED <<person, upserts, wpc, wargs, wrows>>
              ELSE /\ person' = InsertPerson(person, wargs[w].id, wargs[w].name)
                   /\ upserts' = [upserts EXCEPT ![wargs[w].id] = Append(@, wargs[w].name)]
                   /\ wpc' = [wpc EXCEPT ![w] = "done"]
                   /\ wargs' = [wargs EXCEPT ![w] = NoArgs]
                   /\ wrows' = [wrows EXCEPT ![w] = 0]
                   /\ UNCHANGED <<proc, fatalMsg>>
    /\ UNCHANGED <<mainVars, sessionActivity, now, updHits, wout, calls>>
    /\ UNCHANGED driverVars

Min(a, b) == IF a < b THEN a ELSE b

\* RecordSessionActivity, lines 101-108.
ExecRecordSessionActivity(w) ==
    /\ proc = "running"
    /\ wpc[w] = "record"
    /\ \E k \in Checkouts(w), fault \in BOOLEAN, t \in now..Min(now + 1, MaxTime) :
         LET err == IF k.c = 0 THEN "connect"
                    ELSE RecordErr(k.cs[k.c], memTable, person, wargs[w].id, fault)
         IN
         /\ conns' = k.cs
         /\ werr' = [werr EXCEPT ![w] = err]
         /\ IF err # "nil"
              THEN /\ proc' = "fatal"
                   /\ fatalMsg' = "RecordSessionActivity"
                   /\ UNCHANGED <<sessionActivity, now, wpc, wargs>>
              ELSE /\ sessionActivity' =
                        RecordSessionActivityRow(sessionActivity, wargs[w].id, t)
                   /\ now' = t
                   /\ wpc' = [wpc EXCEPT ![w] = "done"]
                   /\ wargs' = [wargs EXCEPT ![w] = NoArgs]
                   /\ UNCHANGED <<proc, fatalMsg>>
    /\ UNCHANGED <<mainVars, person, updHits, upserts, wrows, wout, calls>>
    /\ UNCHANGED driverVars

\* --------------------------------------------------- getSessionActivity

NullRow == [id |-> NullId, name |-> Null, numUpdates |-> NullId]

\* FROM mem.sessionActivity LEFT OUTER JOIN main.person ON personId = person.id
Joined(tbl, events) ==
    UNION {IF RowsOf(tbl, events[i].personId) = {}
             THEN {<<i, NullRow>>}
             ELSE {<<i, r>> : r \in RowsOf(tbl, events[i].personId)}
           : i \in DOMAIN events}

\* GROUP BY main.person.id
GroupKeys(tbl, events) == {j[2].id : j \in Joined(tbl, events)}
Group(tbl, events, k) == {j \in Joined(tbl, events) : j[2].id = k}

\* The result rows: one per group, its bare columns (name, dateTime) taken
\* from a row of the group the engine chooses, count(*) the size of the
\* group; ORDER BY dateTime ASC orders the rows by that value.
GetSessionActivity(tbl, events) ==
    LET keys == GroupKeys(tbl, events)
        n == Cardinality(keys)
        reps == {rep \in [keys -> Joined(tbl, events)] :
                    \A k \in keys : rep[k] \in Group(tbl, events, k)}
        orders == {q \in [1..n -> keys] : \A a, b \in 1..n : a # b => q[a] # q[b]}
        RowOf(rep, k) == [personName |-> rep[k][2].name,
                          personId |-> k,
                          dateTime |-> events[rep[k][1]].dateTime,
                          numItems |-> Cardinality(Group(tbl, events, k))]
    IN {res \in {[i \in 1..n |-> RowOf(rep, q[i])] : rep \in reps, q \in orders} :
          \A a, b \in 1..n : a < b => res[a].dateTime <= res[b].dateTime}

\* rows.Scan into (string, int64, time.Time, int64): a NULL in the first
\* column fails the conversion and leaves every destination at its zero value.
ScanErr(row) == IF row.personName = Null THEN "scan" ELSE "nil"
Scanned(row) ==
    IF ScanErr(row) # "nil"
      THEN [personName |-> "", personId |-> 0, dateTime |-> ZeroTime, numItems |-> 0]
      ELSE row

\* PrintSessionActivity, lines 113-131: the query, log.Fatal on an error, and
\* the loop over the rows, each turn assigning err and printing one line.
ExecGetSessionActivity(w) ==
    /\ proc = "running"
    /\ wpc[w] = "query"
    /\ \E k \in Checkouts(w), fault \in BOOLEAN :
         LET err == StmtErr(k, TRUE, fault) IN
         /\ conns' = k.cs
         /\ IF err # "nil"
              THEN /\ werr' = [werr EXCEPT ![w] = err]
                   /\ proc' = "fatal"
                   /\ fatalMsg' = "PrintSessionActivity"
                   /\ UNCHANGED <<wout, wpc>>
              ELSE /\ \E res \in GetSessionActivity(person, sessionActivity) :
                        /\ wout' = [wout EXCEPT ![w] =
                                      [i \in DOMAIN res |-> Scanned(res[i])]]
                        /\ werr' = [werr EXCEPT ![w] =
                                      IF res = <<>> THEN "nil" ELSE ScanErr(res[Len(res)])]
                   /\ wpc' = [wpc EXCEPT ![w] = "done"]
                   /\ UNCHANGED <<proc, fatalMsg>>
    /\ UNCHANGED <<mainVars, dataVars, wargs, wrows, calls>>
    /\ UNCHANGED driverVars

\* ------------------------------------------------------- specifications

Next ==
    \/ Register
    \/ Connect
    \/ InitDbSchema
    \/ Prepare
    \/ NewReturn
    \/ CloseStmts
    \/ ClosePool
    \/ \E w \in Workers : CallUpsertPerson(w)
    \/ \E w \in Workers : CallRecordSessionActivity(w)
    \/ \E w \in Workers : CallPrintSessionActivity(w)
    \/ \E w \in Workers : ExecUpdatePerson(w)
    \/ \E w \in Workers : ExecInsertPerson(w)
    \/ \E w \in Workers : ExecRecordSessionActivity(w)
    \/ \E w \in Workers : ExecGetSessionActivity(w)

\* Callers running concurrently.
Spec == Init /\ [][Next]_vars

\* Callers running one call at a time: a call starts only when no other call
\* is in progress.
NextSeq ==
    \/ Register
    \/ Connect
    \/ InitDbSchema
    \/ Prepare
    \/ NewReturn
    \/ CloseStmts
    \/ ClosePool
    \/ \E w \in Workers : WorkersQuiet /\ CallUpsertPerson(w)
    \/ \E w \in Workers : WorkersQuiet /\ CallRecordSessionActivity(w)
    \/ \E w \in Workers : WorkersQuiet /\ CallPrintSessionActivity(w)
    \/ \E w \in Workers : ExecUpdatePerson(w)
    \/ \E w \in Workers : ExecInsertPerson(w)
    \/ \E w \in Workers : ExecRecordSessionActivity(w)
    \/ \E w \in Workers : ExecGetSessionActivity(w)

SpecSeq == Init /\ [][NextSeq]_vars

\* ------------------------------------------------------------ the driver

\* main, line 65: the number of messages its loop receives.
NumMessagesShort(numPutters, numSessionUpdaters) == numPutters
NumMessages(numPutters, numSessionUpdaters) == numPutters + numSessionUpdaters

ToReceive == NumMessages(Cardinality(Putters), Cardinality(SessionUpdaters))

\* main, lines 41-47: when New returns an error main prints it and goes on
\* with edDb = nil.
NilHandle == mainpc = "failed"

\* main, line 41: db.New.
MainNew ==
    /\ dpc = "new"
    /\ Register \/ Connect \/ InitDbSchema \/ Prepare \/ NewReturn

\* main, lines 43-61: New has returned; the error is printed or Close is
\* deferred, the channel is made and every worker is started.
MainSpawn ==
    /\ proc = "running"
    /\ dpc = "new"
    /\ mainpc \in {"open", "failed"}
    /\ dpc' = "recv"
    /\ UNCHANGED <<proc, conns, fatalMsg, mainVars, dataVars, workerVars,
                   witers, wsent, recvd>>

\* personPutter, lines 28-31: one turn of the loop enters UpsertPerson, which
\* dereferences the handle on its first line.
PutterCall(w) ==
    /\ proc = "running"
    /\ dpc \notin {"new", "finished"}
    /\ mainpc \in {"open", "failed"}
    /\ w \in Putters
    /\ wpc[w] \in {"idle", "done"}
    /\ witers[w] > 0
    /\ IF NilHandle
         THEN /\ proc' = "panic"
              /\ UNCHANGED <<wpc, wargs, werr, wrows, witers>>
         ELSE /\ \E which \in DOMAIN names :
                   wargs' = [wargs EXCEPT ![w] = [id |-> which, name |-> names[which]]]
              /\ wpc' = [wpc EXCEPT ![w] = "update"]
              /\ werr' = [werr EXCEPT ![w] = "nil"]
              /\ wrows' = [wrows EXCEPT ![w] = 0]
              /\ witers' = [witers EXCEPT ![w] = @ - 1]
              /\ proc' = proc
    /\ UNCHANGED <<conns, fatalMsg, mainVars, dataVars, wout, calls, dpc, wsent, recvd>>

\* sessionUpdater, lines 20-22: one turn of the loop enters
\* RecordSessionActivity(0).
UpdaterCall(w) ==
    /\ proc = "running"
    /\ dpc \notin {"new", "finished"}
    /\ mainpc \in {"open", "failed"}
    /\ w \in SessionUpdaters
    /\ wpc[w] \in {"idle", "done"}
    /\ witers[w] > 0
    /\ IF NilHandle
         THEN /\ proc' = "panic"
              /\ UNCHANGED <<wpc, wargs, werr, witers>>
         ELSE /\ wargs' = [wargs EXCEPT ![w] = [id |-> 0, name |-> Null]]
              /\ wpc' = [wpc EXCEPT ![w] = "record"]
              /\ werr' = [werr EXCEPT ![w] = "nil"]
              /\ witers' = [witers EXCEPT ![w] = @ - 1]
              /\ proc' = proc
    /\ UNCHANGED <<conns, fatalMsg, mainVars, dataVars, wout, wrows, calls, dpc,
                   wsent, recvd>>

\* sessionUpdater line 23, personPutter line 32, and main, line 66: the
\* channel is unbuffered, so the send of a worker that has left its loop and
\* one receive of main's loop happen together.
SendDone(w) ==
    /\ proc = "running"
    /\ dpc = "recv"
    /\ recvd < ToReceive
    /\ wpc[w] \in {"idle", "done"}
    /\ witers[w] = 0
    /\ wsent[w] = 0
    /\ wsent' = [wsent EXCEPT ![w] = 1]
    /\ recvd' = recvd + 1
    /\ UNCHANGED <<proc, conns, fatalMsg, mainVars, dataVars, workerVars, dpc, witers>>

\* main, lines 65-69: the receive loop is over and main enters
\* PrintSessionActivity.
MainReport ==
    /\ proc = "running"
    /\ dpc = "recv"
    /\ recvd = ToReceive
    /\ IF NilHandle
         THEN /\ proc' = "panic"
              /\ UNCHANGED <<wpc, wargs, werr, wout, dpc>>
         ELSE /\ wargs' = [wargs EXCEPT ![Main] = NoArgs]
              /\ wpc' = [wpc EXCEPT ![Main] = "query"]
              /\ werr' = [werr EXCEPT ![Main] = "nil"]
              /\ wout' = [wout EXCEPT ![Main] = <<>>]
              /\ dpc' = "report"
              /\ proc' = proc
    /\ UNCHANGED <<conns, fatalMsg, mainVars, dataVars, wrows, calls, witers,
                   wsent, recvd>>

\* main returns after line 71 and the deferred Close runs.
MainClose ==
    /\ dpc = "report"
    /\ wpc[Main] = "done"
    /\ CloseStmts \/ ClosePool

\* The deferred Close has returned: the process ends.
MainExit ==
    /\ proc = "running"
    /\ dpc = "report"
    /\ mainpc = "closed"
    /\ dpc' = "finished"
    /\ UNCHANGED <<proc, conns, fatalMsg, mainVars, dataVars, workerVars,
                   witers, wsent, recvd>>

NextDriver ==
    \/ MainNew
    \/ MainSpawn
    \/ \E w \in Workers :
         \/ PutterCall(w)
         \/ UpdaterCall(w)
         \/ ExecUpdatePerson(w)
         \/ ExecInsertPerson(w)
         \/ ExecRecordSessionActivity(w)
         \/ SendDone(w)
    \/ MainReport
    \/ ExecGetSessionActivity(Main)
    \/ MainClose
    \/ MainExit

\* The scheduler runs some goroutine as long as one can take a step.
SpecDriver == Init /\ [][NextDriver]_vars /\ WF_vars(NextDriver)

\* The scheduler runs every goroutine that can take a step: a statement that
\* has been issued is executed.
SpecFair ==
    /\ Spec
    /\ \A w \in Workers :
         /\ WF_vars(ExecUpdatePerson(w))
         /\ WF_vars(ExecInsertPerson(w))
         /\ WF_vars(ExecRecordSessionActivity(w))
         /\ WF_vars(ExecGetSessionActivity(w))

\* The example of the specification, run by one caller from an empty store:
\* upsert(1,"Andy"); upsert(1,"Andy2"); three times recordActivity(1); report.
Example ==
    << [op |-> "update", id |-> 1, name |-> "Andy"],
       [op |-> "update", id |-> 1, name |-> "Andy2"],
       [op |-> "record", id |-> 1, name |-> Null],
       [op |-> "record", id |-> 1, name |-> Null],
       [op |-> "record", id |-> 1, name |-> Null],
       [op |-> "query", id |-> 0, name |-> Null] >>

\* The caller starts the next call of the example.
ExampleCall ==
    /\ proc = "running"
    /\ mainpc = "open"
    /\ wpc[1] \in {"idle", "done"}
    /\ calls < Len(Example)
    /\ LET e == Example[calls + 1] IN
         /\ wargs' = [wargs EXCEPT ![1] = [id |-> e.id, name |-> e.name]]
         /\ wpc' = [wpc EXCEPT ![1] = e.op]
    /\ werr' = [werr EXCEPT ![1] = "nil"]
    /\ wout' = [wout EXCEPT ![1] = <<>>]
    /\ calls' = calls + 1
    /\ UNCHANGED <<proc, conns, fatalMsg, mainVars, dataVars, wrows>>
    /\ UNCHANGED driverVars

NextExample ==
    \/ Register
    \/ Connect
    \/ InitDbSchema
    \/ Prepare
    \/ NewReturn
    \/ CloseStmts
    \/ ClosePool
    \/ ExampleCall
    \/ ExecUpdatePerson(1)
    \/ ExecInsertPerson(1)
    \/ ExecRecordSessionActivity(1)
    \/ ExecGetSessionActivity(1)

SpecExample == Init /\ [][NextExample]_vars

\* ------------------------------------------------------------- properties

BackendErrors == {"io", "no such table", "connect"}
UpsertInProgress(id) ==
    \E w \in Workers : wpc[w] \in {"update", "insert"} /\ wargs[w].id = id

\* C1: with no concurrent caller, an UpsertPerson(id, name) that meets no
\* backend failure returns nil and (a) when no row has that id, its update
\* statement affects zero rows and changes nothing and its insert statement
\* adds exactly the row (id, name, 0); (b) when a row has that id, its update
\* statement overwrites the name and adds exactly 1 to numUpdates and its
\* insert statement changes nothing; nothing else touches the table.
C1_SequentialUpsert ==
    [][/\ \A w \in Workers :
            LET id == wargs[w].id
                name == wargs[w].name
            IN
            /\ (wpc[w] = "update" /\ wpc'[w] = "insert") =>
                 IF RowsOf(person, id) = {}
                   THEN person' = person /\ wrows'[w] = 0
                   ELSE \E r \in person :
                          /\ RowsOf(person, id) = {r}
                          /\ person' = (person \ {r}) \cup {Row(id, name, r.numUpdates + 1)}
                          /\ wrows'[w] = 1
            /\ (wpc[w] = "insert" /\ wpc'[w] = "done") =>
                 /\ werr'[w] = "nil"
                 /\ IF wrows[w] = 0
                      THEN /\ RowsOf(person, id) = {}
                           /\ person' = person \cup {Row(id, name, 0)}
                      ELSE person' = person
       /\ person' # person =>
            \E w \in Workers : wpc[w] \in {"update", "insert"} /\ wpc'[w] # wpc[w]
      ]_vars

\* Both cases of C1 have happened: one id created, another id updated.
C1_Witness ==
    /\ WorkersQuiet
    /\ \E i, j \in Ids :
         /\ Len(upserts[i]) = 1 /\ Row(i, upserts[i][1], 0) \in person
         /\ Len(upserts[j]) = 2 /\ Row(j, upserts[j][2], 1) \in person

\* C2 as stated: an id upserted exactly twice, one call after the other, with
\* different names and absent before, holds the last name and numUpdates 2.
C2_TwiceCountTwo ==
    \A id \in Ids :
      (Len(upserts[id]) = 2 /\ upserts[id][1] # upserts[id][2] /\ ~UpsertInProgress(id))
        => RowsOf(person, id) = {Row(id, upserts[id][2], 2)}

\* C2 as amended: the same id holds the last name and numUpdates 1, the first
\* upsert having created the row with numUpdates 0.
C2_TwiceCountOne ==
    \A id \in Ids :
      (Len(upserts[id]) = 2 /\ upserts[id][1] # upserts[id][2] /\ ~UpsertInProgress(id))
        => RowsOf(person, id) = {Row(id, upserts[id][2], 1)}

\* An id has been upserted twice with different names.
C2_Witness ==
    /\ WorkersQuiet
    /\ \E id \in Ids : Len(upserts[id]) = 2 /\ upserts[id][1] # upserts[id][2]

\* C3: under any interleaving of the update and insert statements of
\* concurrent upserts, each id has at most one row, and that row's numUpdates
\* is not below the number of update statements that affected a row of the id.
C3_ConcurrentUpsert ==
    \A id \in Ids :
      /\ Cardinality(RowsOf(person, id)) <= 1
      /\ \A r \in RowsOf(person, id) : r.numUpdates >= updHits[id]
      /\ updHits[id] > 0 => RowsOf(person, id) # {}

\* Two callers are inside upserts of the same id, both updates having hit.
C3_Witness ==
    \E v, w \in Workers :
      /\ v # w
      /\ wpc[v] = "insert" /\ wpc[w] = "insert"
      /\ wargs[v].id = wargs[w].id
      /\ wrows[v] = 1 /\ wrows[w] = 1
      /\ updHits[wargs[v].id] = 2

\* C4: a backend error of a statement of UpsertPerson, RecordSessionActivity
\* or PrintSessionActivity is returned to the caller (the call ends with that
\* error) and the process keeps running.
C4_ErrorReturned ==
    \A w \in Workers :
      werr[w] \in BackendErrors => (proc = "running" /\ wpc[w] = "done")

\* C5: every connection of the open handle sees the one activity table: no
\* statement on sessionActivity fails for want of the table, whichever
\* connection runs it.
C5_OneActivityTable ==
    /\ \A w \in Workers : werr[w] # "no such table"
    /\ mainpc = "open" => \A c \in OpenConns : conns[c] = "attached"

\* C6: a connection on which ATTACH failed is refused by the connection
\* factory, so the pool never holds a connection without the memory database.
C6_NoBareConnection == \A c \in ConnIds : conns[c] # "bare"

\* C7: while a handle is out, both tables exist and every statement of the
\* registry is prepared; a New that failed returned no handle and left the
\* pool closed.
C7_OpenAfterInit ==
    /\ mainpc = "open" =>
         personTable /\ memTable /\ \A t \in Titles : statements[t] = "prepared"
    /\ newErr # "nil" => (mainpc # "open" /\ pool \in {"none", "closed"})

\* C8: the pool is closed only after every compiled statement has been
\* released, and Close leaves all four released.
C8_ReleaseBeforePoolClose ==
    /\ pool = "closed" => \A t \in Titles : statements[t] # "prepared"
    /\ mainpc = "closed" => \A t \in Titles : statements[t] = "closed"

\* Close has run to its end.
C8_Witness == mainpc = "closed" /\ pool = "closed" /\ calls > 0

\* C9: a second New in the same process, after Close, succeeds: it does not
\* panic, and the handle it returns sees an empty sessionActivity and the
\* person rows as they were at Close.
C9_ReopenSucceeds ==
    opens >= 2 =>
      /\ proc # "panic"
      /\ mainpc = "open" => (sessionActivity = <<>> /\ person = diskAtClose)

\* C10: RecordSessionActivity(personID) that meets no backend failure appends
\* exactly one row carrying personID and returns nil, whether or not person
\* has a row with that id; the only errors it can meet are backend failures.
C10_RecordAppendsOne ==
    [][\A w \in Workers :
         (wpc[w] = "record" /\ (wpc'[w] # "record" \/ werr'[w] # werr[w])) =>
           \/ /\ werr'[w] \in BackendErrors
              /\ proc' = "fatal"
              /\ sessionActivity' = sessionActivity
           \/ /\ werr'[w] = "nil"
              /\ wpc'[w] = "done"
              /\ proc' = "running"
              /\ Len(sessionActivity') = Len(sessionActivity) + 1
              /\ SubSeq(sessionActivity', 1, Len(sessionActivity)) = sessionActivity
              /\ sessionActivity'[Len(sessionActivity')].personId = wargs[w].id
      ]_vars

\* An event has been recorded for an id that has no row in person, and
\* another for an id that has one.
C10_Witness ==
    /\ \E i \in DOMAIN sessionActivity : RowsOf(person, sessionActivity[i].personId) = {}
    /\ \E i \in DOMAIN sessionActivity : RowsOf(person, sessionActivity[i].personId) # {}
    /\ proc = "running"

\* The ids that have at least one event, and the events of an id.
EventIds == {sessionActivity[i].personId : i \in DOMAIN sessionActivity}
EventsOf(id) == {i \in DOMAIN sessionActivity : sessionActivity[i].personId = id}

\* C11: the rows a report yields are in one-to-one correspondence with the
\* ids that have events, each row counting the events of its id: events of
\* two different ids never share a row.
C11_OneRowPerEntity ==
    \A w \in Workers :
      wpc[w] = "query" =>
        \A res \in GetSessionActivity(person, sessionActivity) :
          \E f \in [EventIds -> DOMAIN res] :
            /\ \A p, q \in EventIds : p # q => f[p] # f[q]
            /\ \A i \in DOMAIN res : \E p \in EventIds : f[p] = i
            /\ \A p \in EventIds : res[f[p]].numItems = Cardinality(EventsOf(p))

\* C12: a report run while some id has events and no row in person returns
\* nil and yields, for that id, a row with a null or empty name and the
\* number of its events.
C12_OrphanRowSurfaces ==
    [][\A w \in Workers :
         (wpc[w] = "query" /\ wpc'[w] = "done") =>
           \A p \in EventIds :
             RowsOf(person, p) = {} =>
               /\ werr'[w] = "nil"
               /\ \E i \in DOMAIN wout'[w] :
                    /\ wout'[w][i].personName \in {"", Null}
                    /\ wout'[w][i].numItems = Cardinality(EventsOf(p))
      ]_vars

\* C13: when the example has run to its end, person holds exactly the row
\* (1, "Andy2", 1) and the report has yielded exactly one row: name "Andy2",
\* id 1, count 3 and the dateTime of the third event.
C13_ExampleReport ==
    (mainpc = "open" /\ calls = Len(Example) /\ wpc[1] = "done") =>
      /\ person = {Row(1, "Andy2", 1)}
      /\ wout[1] = << [personName |-> "Andy2", personId |-> 1,
                       dateTime |-> sessionActivity[3].dateTime, numItems |-> 3] >>

Range(q) == {q[i] : i \in DOMAIN q}

\* C14: upserts of one id behave as if run one after another: once
\* k upserts of an initially absent id have completed and none is under way,
\* the row holds numUpdates k-1 and the name of one of the calls.
C14_SerialCount ==
    \A id \in Ids :
      (Len(upserts[id]) >= 1 /\ ~UpsertInProgress(id)) =>
        \E r \in person :
          /\ RowsOf(person, id) = {r}
          /\ r.numUpdates = Len(upserts[id]) - 1
          /\ r.name \in Range(upserts[id])

\* C15: from one state to the next every row of person is still there, under
\* its id, with a numUpdates that is not smaller.
C15_CountMonotone ==
    [][\A r \in person :
         \E q \in person' : q.id = r.id /\ q.numUpdates >= r.numUpdates]_vars

\* A row has been updated twice.
C15_Witness == \E r \in person : r.numUpdates >= 2

IsPrefix(p, q) == Len(p) <= Len(q) /\ SubSeq(q, 1, Len(p)) = p

\* C16: while the handle stays open a step leaves sessionActivity as it is or
\* appends one row to it, and only a RecordSessionActivity step appends; only
\* the statements of UpsertPerson change person.
C16_AppendOnly ==
    [][(mainpc = "open" /\ mainpc' = "open") =>
         /\ IsPrefix(sessionActivity, sessionActivity')
         /\ Len(sessionActivity') <= Len(sessionActivity) + 1
         /\ sessionActivity' # sessionActivity =>
              \E w \in Workers : wpc[w] = "record" /\ wpc'[w] = "done"
         /\ person' # person =>
              \E w \in Workers : wpc[w] \in {"update", "insert"} /\ wpc'[w] # wpc[w]
      ]_vars

\* Events have been appended and a report and an upsert have run since.
C16_Witness ==
    /\ mainpc = "open"
    /\ Len(sessionActivity) >= 2
    /\ person # {}

\* C17: every call of UpsertPerson or RecordSessionActivity that has been
\* invoked eventually returns to its caller, with success or with an error.
C17_EveryCallReturns ==
    \A w \in Workers :
      (wpc[w] \in {"update", "insert", "record"}) ~> (wpc[w] = "done")

AllIterationsDone(w) == witers[w] = 0 /\ wpc[w] \in {"idle", "done"}

\* C18: a worker sends at most one message and only after all its iterations;
\* main has received as many messages as were sent and never more than there
\* are workers; once main is past its receive loop (so when it runs the
\* report) every worker has finished all its operations and sent its message;
\* and, unless the process dies inside a datastore call, main finishes.
C18_DriverCompletes ==
    /\ [](\A w \in Workers : wsent[w] <= 1 /\ (wsent[w] = 1 => AllIterationsDone(w)))
    /\ [](recvd = Cardinality({w \in Workers : wsent[w] = 1}))
    /\ [](dpc \in {"report", "finished"} =>
            /\ recvd = Cardinality(Workers)
            /\ \A w \in Workers : AllIterationsDone(w) /\ wsent[w] = 1)
    /\ (<>(proc # "running") \/ <>(dpc = "finished"))

\* main has finished after every worker ran its loop and sent its message.
C18_Witness ==
    /\ dpc = "finished"
    /\ recvd = Cardinality(Workers)
    /\ person # {}

\* C19: when New returned an error, main starts no worker and no datastore
\* operation is invoked on the nil handle.
C19_NoCallOnNilHandle ==
    NilHandle => (dpc = "new" /\ proc # "panic")

====
